---- MODULE Spec2Model ----
(***************************************************************************)
(* Model of src/esp32.ino: the two FreeRTOS tasks WiFiUpdaterLoop (Fetch)  *)
(* and SDUpdaterLoop (Apply), the two global flags is_downloading and      *)
(* is_updating, the staged file /update.bin on the SD card, and the use of *)
(* the flash primitive (Update) and of ESP.restart.  Both tasks have the   *)
(* same priority on the same core, so the scheduler may switch between     *)
(* them between any two statements: every statement that reads or writes   *)
(* shared state (a flag, the SD card) is one atomic step.                  *)
(***************************************************************************)
EXTENDS Integers, Sequences, FiniteSets, TLC

(* ---- bounds ---- *)
\* staged bodies have up to MaxChunks full buffers, plus possibly one byte
MaxChunks == 2

(* ---- program constants ---- *)
bufferSize == 1024
HTTP_CODE_OK == 200
HTTP_CODE_ALREADY_REPORTED == 208
HTTP_CODE_MOVED_PERMANENTLY == 301
HTTP_CODE_NOT_FOUND == 404
HTTPC_ERROR_CONNECTION_REFUSED == -1

\* the status codes http.GET() is made to return
HttpCodes == {HTTP_CODE_OK, HTTP_CODE_ALREADY_REPORTED, HTTP_CODE_MOVED_PERMANENTLY,
              HTTP_CODE_NOT_FOUND, HTTPC_ERROR_CONNECTION_REFUSED}

\* lengths of the response bodies / of the image found on the card at power-on
BodySizes == {k * bufferSize + d : k \in 0..MaxChunks, d \in {0, 1}}

\* image 0 is what the card may hold at power-on, image 1 is what the server sends
OLD_IMAGE == 0
NEW_IMAGE == 1

(* ---- byte sequences, run-length encoded ---- *)
\* A byte is (image id, index in that image).  A byte sequence is kept as a
\* sequence of extents <<id, lo, hi>>, adjacent extents of one image merged,
\* so two encodings are equal exactly when the byte sequences are equal.
Bytes(id, lo, hi) == IF hi < lo THEN <<>> ELSE << <<id, lo, hi>> >>

RECURSIVE DataLen(_)
DataLen(data) ==
    IF data = <<>> THEN 0
    ELSE (data[Len(data)][3] - data[Len(data)][2] + 1) + DataLen(SubSeq(data, 1, Len(data) - 1))

\* file.write(buffer, n) at the end of the file
AppendBytes(data, chunk) ==
    IF chunk = <<>> THEN data
    ELSE IF data # <<>> /\ data[Len(data)][1] = chunk[1][1]
                        /\ data[Len(data)][3] + 1 = chunk[1][2]
         THEN [data EXCEPT ![Len(data)] = <<chunk[1][1], data[Len(data)][2], chunk[1][3]>>]
         ELSE data \o chunk

Min(a, b) == IF a < b THEN a ELSE b

VARIABLES
    phase,           \* "running", or "rebooting" once ESP.restart() was called
    fsLock,          \* build option of the FAT layer: open files are locked or not
    is_downloading,  \* global flag, line 25
    is_updating,     \* global flag, line 26
    slot,            \* /update.bin on the card: [present, data]
    pcF,             \* position of WiFiUpdaterLoop / CheckAPIForUpdates
    fOpen,           \* CheckAPIForUpdates holds `file` open for writing
    body,            \* length of the response body of the current request
    pos,             \* bytes of the body already taken from the stream
    bytesRead,       \* local bytesRead
    fetch,           \* record of the current/last CheckAPIForUpdates call
    pcA,             \* position of SDUpdaterLoop / UpdateFirmwareFromSD / performUpdate
    aOpen,           \* UpdateFirmwareFromSD holds binFile open for reading
    sameImage,       \* the slot still holds the file binFile was opened on
    run,             \* record of the current/last UpdateFirmwareFromSD call
    image            \* history of the file in the slot: "absent", "writing" (Fetch has it
                     \* open), "staged" (written and closed, no flash attempt yet),
                     \* "attempted" (Update.begin was called on it, or it was found
                     \* empty), "lost" (removed while "staged")

vars == <<phase, fsLock, is_downloading, is_updating, slot, pcF, fOpen, body, pos,
          bytesRead, fetch, pcA, aOpen, sameImage, run, image>>

fetchVars == <<pcF, fOpen, body, pos, bytesRead, fetch>>
applyVars == <<pcA, aOpen, sameImage, run>>

NoFile == [present |-> FALSE, data |-> <<>>]

\* nothing done yet in this call of CheckAPIForUpdates
NoFetch == [outcome |-> "none", touched |-> FALSE, prevLen |-> 0,
            httpCode |-> 0, storageCalls |-> 0, prevBusy |-> FALSE]

\* nothing done yet in this call of UpdateFirmwareFromSD
NoRun == [found |-> FALSE, partial |-> FALSE, size |-> 0,
          beginCalls |-> 0, writeCalls |-> 0, endCalls |-> 0, restartCalls |-> 0,
          beganOK |-> FALSE, written |-> 0, endOK |-> FALSE, finished |-> FALSE,
          outcome |-> "none", prevNoUpdate |-> FALSE]

\* globals and task positions after setup(): flags false, Fetch about to
\* call CheckAPIForUpdates, Apply in its first delay
Fresh ==
    /\ phase = "running"
    /\ is_downloading = FALSE
    /\ is_updating = FALSE
    /\ pcF = "delay" /\ fOpen = FALSE /\ body = 0 /\ pos = 0 /\ bytesRead = 0
    /\ fetch = NoFetch
    /\ pcA = "delay" /\ aOpen = FALSE /\ sameImage = FALSE
    /\ run = NoRun

Init ==
    /\ Fresh
    /\ fsLock \in BOOLEAN
    /\ slot \in {NoFile} \cup {[present |-> TRUE, data |-> Bytes(OLD_IMAGE, 1, n)] : n \in BodySizes}
    /\ image = IF slot.present THEN "staged" ELSE "absent"

(* ======================= Fetch: CheckAPIForUpdates ======================= *)

\* WiFiUpdaterLoop calls CheckAPIForUpdates; lines 108-111
CheckAPIForUpdates_Enter ==
    /\ phase = "running" /\ pcF = "delay"
    /\ fetch' = [NoFetch EXCEPT !.outcome = IF is_updating THEN "busy" ELSE "none",
                                !.prevBusy = (fetch.outcome = "busy")]
    /\ pcF' = IF is_updating THEN "delay" ELSE "http"
    /\ UNCHANGED <<image, phase, fsLock, is_downloading, is_updating, slot, fOpen, body, pos, bytesRead>>
    /\ UNCHANGED applyVars

\* every status other than "already reported" starts a download
Get_AnyCodeDownloads ==
    /\ phase = "running" /\ pcF = "http"
    /\ \E beginOK \in BOOLEAN, httpCode \in HttpCodes, n \in BodySizes :
         IF ~beginOK
         THEN /\ pcF' = "delay"
              /\ fetch' = [fetch EXCEPT !.outcome = "httpError"]
              /\ UNCHANGED <<body, pos>>
         ELSE IF httpCode = HTTP_CODE_ALREADY_REPORTED
         THEN /\ pcF' = "clearDownloading"
              /\ fetch' = [fetch EXCEPT !.outcome = "upToDate", !.httpCode = httpCode]
              /\ UNCHANGED <<body, pos>>
         ELSE /\ pcF' = "setDownloading"
              /\ body' = n /\ pos' = 0
              /\ fetch' = [fetch EXCEPT !.httpCode = httpCode]
    /\ UNCHANGED <<image, phase, fsLock, is_downloading, is_updating, slot, fOpen, bytesRead>>
    /\ UNCHANGED applyVars

\* http.begin and http.GET, and the branch on httpCode; lines 118-124, 154-162
CheckAPIForUpdates_Get ==
    /\ phase = "running" /\ pcF = "http"
    /\ \E beginOK \in BOOLEAN, httpCode \in HttpCodes, n \in BodySizes :
         IF ~beginOK
         THEN /\ pcF' = "delay"
              /\ fetch' = [fetch EXCEPT !.outcome = "httpError"]
              /\ UNCHANGED <<body, pos>>
         ELSE IF httpCode = HTTP_CODE_ALREADY_REPORTED
         THEN /\ pcF' = "clearDownloading"
              /\ fetch' = [fetch EXCEPT !.outcome = "upToDate", !.httpCode = httpCode]
              /\ UNCHANGED <<body, pos>>
         ELSE IF httpCode = HTTP_CODE_OK \/ httpCode = HTTP_CODE_MOVED_PERMANENTLY
         THEN /\ pcF' = "setDownloading"
              /\ body' = n /\ pos' = 0
              /\ fetch' = [fetch EXCEPT !.httpCode = httpCode]
         ELSE /\ pcF' = "clearDownloading"
              /\ fetch' = [fetch EXCEPT !.outcome = "canceled", !.httpCode = httpCode]
              /\ UNCHANGED <<body, pos>>
    /\ UNCHANGED <<image, phase, fsLock, is_downloading, is_updating, slot, fOpen, bytesRead>>
    /\ UNCHANGED applyVars

\* the download starts without is_downloading being set
SetDownloading_Skipped ==
    /\ phase = "running" /\ pcF = "setDownloading"
    /\ pcF' = "mount"
    /\ UNCHANGED <<image, phase, fsLock, is_downloading, is_updating, slot, fOpen, body, pos, bytesRead, fetch>>
    /\ UNCHANGED applyVars

\* is_downloading = true; line 125
CheckAPIForUpdates_SetDownloading ==
    /\ phase = "running" /\ pcF = "setDownloading"
    /\ is_downloading' = TRUE
    /\ pcF' = "mount"
    /\ UNCHANGED <<image, phase, fsLock, is_updating, slot, fOpen, body, pos, bytesRead, fetch>>
    /\ UNCHANGED applyVars

\* SD.begin(SD_CS_PIN); line 130
CheckAPIForUpdates_Mount ==
    /\ phase = "running" /\ pcF = "mount"
    /\ \E ok \in BOOLEAN : pcF' = IF ok THEN "open" ELSE "mountFailed"
    /\ fetch' = [fetch EXCEPT !.storageCalls = @ + 1]
    /\ UNCHANGED <<image, phase, fsLock, is_downloading, is_updating, slot, fOpen, body, pos, bytesRead>>
    /\ UNCHANGED applyVars

\* the mount failed, but is_downloading is left set
MountFailed_NoClear ==
    /\ phase = "running" /\ pcF = "mountFailed"
    /\ pcF' = "delay"
    /\ fetch' = [fetch EXCEPT !.outcome = "mountFailed"]
    /\ UNCHANGED <<image, phase, fsLock, is_downloading, is_updating, slot, fOpen, body, pos, bytesRead>>
    /\ UNCHANGED applyVars

\* the mount failed: is_downloading = false; return; lines 131-133
CheckAPIForUpdates_MountFailed ==
    /\ phase = "running" /\ pcF = "mountFailed"
    /\ is_downloading' = FALSE
    /\ pcF' = "delay"
    /\ fetch' = [fetch EXCEPT !.outcome = "mountFailed"]
    /\ UNCHANGED <<image, phase, fsLock, is_updating, slot, fOpen, body, pos, bytesRead>>
    /\ UNCHANGED applyVars

\* SD.open(fileName, FILE_WRITE) that keeps what the file held
Open_Append ==
    /\ phase = "running" /\ pcF = "open"
    /\ \E ok \in BOOLEAN :
         IF ok /\ ~(fsLock /\ aOpen)
         THEN /\ slot' = [present |-> TRUE, data |-> slot.data]
              /\ fOpen' = TRUE
              /\ sameImage' = FALSE
              /\ image' = "writing"
              /\ fetch' = [fetch EXCEPT !.prevLen = DataLen(slot.data), !.storageCalls = @ + 1]
              /\ pcF' = "read"
         ELSE /\ fetch' = [fetch EXCEPT !.outcome = "openFailed", !.storageCalls = @ + 1]
              /\ pcF' = "clearDownloading"
              /\ UNCHANGED <<slot, fOpen, sameImage, image>>
    /\ UNCHANGED <<phase, fsLock, is_downloading, is_updating, body, pos, bytesRead>>
    /\ UNCHANGED <<pcA, aOpen, run>>

\* File file = SD.open(fileName, FILE_WRITE); if (file) ... else ...; lines 136-137, 148-151.
\* FILE_WRITE is mode "w": the file is created or truncated.  With file
\* locking in the FAT layer the open is refused while binFile is open.
CheckAPIForUpdates_Open ==
    /\ phase = "running" /\ pcF = "open"
    /\ \E ok \in BOOLEAN :
         IF ok /\ ~(fsLock /\ aOpen)
         THEN /\ slot' = [present |-> TRUE, data |-> <<>>]
              /\ fOpen' = TRUE
              /\ sameImage' = FALSE
              /\ image' = "writing"
              /\ fetch' = [fetch EXCEPT !.prevLen = DataLen(slot.data), !.storageCalls = @ + 1]
              /\ pcF' = "read"
         ELSE /\ fetch' = [fetch EXCEPT !.outcome = "openFailed", !.storageCalls = @ + 1]
              /\ pcF' = "clearDownloading"
              /\ UNCHANGED <<slot, fOpen, sameImage, image>>
    /\ UNCHANGED <<phase, fsLock, is_downloading, is_updating, body, pos, bytesRead>>
    /\ UNCHANGED <<pcA, aOpen, run>>

\* bytesRead = stream->readBytes(buffer, bufferSize); while (bytesRead > 0); lines 141-142, 144
CheckAPIForUpdates_ReadBytes ==
    /\ phase = "running" /\ pcF = "read"
    /\ bytesRead' = Min(bufferSize, body - pos)
    /\ pos' = pos + bytesRead'
    /\ pcF' = IF bytesRead' > 0 THEN "write" ELSE "close"
    /\ UNCHANGED <<image, phase, fsLock, is_downloading, is_updating, slot, fOpen, body, fetch>>
    /\ UNCHANGED applyVars

\* file.write(buffer, bytesRead); line 143.  A write through the handle of
\* a file that was unlinked meanwhile does not bring the file back.
CheckAPIForUpdates_Write ==
    /\ phase = "running" /\ pcF = "write"
    /\ slot' = IF slot.present
               THEN [slot EXCEPT !.data = AppendBytes(@, Bytes(NEW_IMAGE, pos - bytesRead + 1, pos))]
               ELSE slot
    /\ pcF' = "read"
    /\ UNCHANGED <<image, phase, fsLock, is_downloading, is_updating, fOpen, body, pos, bytesRead, fetch>>
    /\ UNCHANGED applyVars

\* file.close(); http.end(); lines 146-147, 153
CheckAPIForUpdates_Close ==
    /\ phase = "running" /\ pcF = "close"
    /\ fOpen' = FALSE
    /\ image' = IF slot.present /\ image = "writing" THEN "staged" ELSE image
    /\ fetch' = [fetch EXCEPT !.outcome = "saved"]
    /\ pcF' = "clearDownloading"
    /\ UNCHANGED <<phase, fsLock, is_downloading, is_updating, slot, body, pos, bytesRead>>
    /\ UNCHANGED applyVars

\* is_downloading = false; return, then delay(WiFi_Timeout); lines 159, 208
CheckAPIForUpdates_ClearDownloading ==
    /\ phase = "running" /\ pcF = "clearDownloading"
    /\ is_downloading' = FALSE
    /\ pcF' = "delay"
    /\ UNCHANGED <<image, phase, fsLock, is_updating, slot, fOpen, body, pos, bytesRead, fetch>>
    /\ UNCHANGED applyVars

FetchStep ==
    \/ CheckAPIForUpdates_Enter
    \/ CheckAPIForUpdates_Get
    \/ CheckAPIForUpdates_SetDownloading
    \/ CheckAPIForUpdates_Mount
    \/ CheckAPIForUpdates_MountFailed
    \/ CheckAPIForUpdates_Open
    \/ CheckAPIForUpdates_ReadBytes
    \/ CheckAPIForUpdates_Write
    \/ CheckAPIForUpdates_Close
    \/ CheckAPIForUpdates_ClearDownloading

(* ================ Apply: UpdateFirmwareFromSD, performUpdate ================ *)

\* UpdateFirmwareFromSD goes on whatever is_downloading says
Enter_IgnoresDownloading ==
    /\ phase = "running" /\ pcA = "delay"
    /\ run' = [NoRun EXCEPT !.outcome = IF is_downloading THEN "busy" ELSE "none",
                            !.prevNoUpdate = (run.outcome = "noUpdate")]
    /\ sameImage' = FALSE
    /\ pcA' = "mount"
    /\ UNCHANGED <<image, phase, fsLock, is_downloading, is_updating, slot, aOpen>>
    /\ UNCHANGED fetchVars

\* delay(SD_Timeout) ends, SDUpdaterLoop calls UpdateFirmwareFromSD; lines 214-215, 62-65
UpdateFirmwareFromSD_Enter ==
    /\ phase = "running" /\ pcA = "delay"
    /\ run' = [NoRun EXCEPT !.outcome = IF is_downloading THEN "busy" ELSE "none",
                            !.prevNoUpdate = (run.outcome = "noUpdate")]
    /\ sameImage' = FALSE
    /\ pcA' = IF is_downloading THEN "returned" ELSE "mount"
    /\ UNCHANGED <<image, phase, fsLock, is_downloading, is_updating, slot, aOpen>>
    /\ UNCHANGED fetchVars

\* if (!SD.begin(SD_CS_PIN)) return; lines 67-70
UpdateFirmwareFromSD_Mount ==
    /\ phase = "running" /\ pcA = "mount"
    /\ \E ok \in BOOLEAN :
         /\ pcA' = IF ok THEN "open" ELSE "returned"
         /\ run' = IF ok THEN run ELSE [run EXCEPT !.outcome = "mountFailed"]
    /\ UNCHANGED <<image, phase, fsLock, is_downloading, is_updating, slot, aOpen, sameImage>>
    /\ UNCHANGED fetchVars

\* the result of SD.open is not tested: the run goes on without a file
Open_NoCheck ==
    /\ phase = "running" /\ pcA = "open"
    /\ IF slot.present /\ ~(fsLock /\ fOpen)
       THEN /\ aOpen' = TRUE
            /\ sameImage' = TRUE
            /\ run' = [run EXCEPT !.found = TRUE, !.partial = fOpen, !.outcome = "found"]
            /\ pcA' = "setUpdating"
       ELSE /\ pcA' = "setUpdating"
            /\ run' = [run EXCEPT !.outcome = "noUpdate"]
            /\ UNCHANGED <<aOpen, sameImage>>
    /\ UNCHANGED <<image, phase, fsLock, is_downloading, is_updating, slot>>
    /\ UNCHANGED fetchVars

\* File binFile = SD.open("/update.bin", FILE_READ); if (!binFile) return; lines 72-76.
\* With file locking in the FAT layer the open is refused while `file` is open.
UpdateFirmwareFromSD_Open ==
    /\ phase = "running" /\ pcA = "open"
    /\ IF slot.present /\ ~(fsLock /\ fOpen)
       THEN /\ aOpen' = TRUE
            /\ sameImage' = TRUE
            /\ run' = [run EXCEPT !.found = TRUE, !.partial = fOpen, !.outcome = "found"]
            /\ pcA' = "setUpdating"
       ELSE /\ pcA' = "returned"
            /\ run' = [run EXCEPT !.outcome = "noUpdate"]
            /\ UNCHANGED <<aOpen, sameImage>>
    /\ UNCHANGED <<image, phase, fsLock, is_downloading, is_updating, slot>>
    /\ UNCHANGED fetchVars

\* is_updating = true; line 78
UpdateFirmwareFromSD_SetUpdating ==
    /\ phase = "running" /\ pcA = "setUpdating"
    /\ is_updating' = TRUE
    /\ pcA' = "size"
    /\ UNCHANGED <<image, phase, fsLock, is_downloading, slot, aOpen, sameImage, run>>
    /\ UNCHANGED fetchVars

\* an empty file makes UpdateFirmwareFromSD return at once
Size_EarlyReturn ==
    /\ phase = "running" /\ pcA = "size"
    /\ run' = [run EXCEPT !.size = DataLen(slot.data)]
    /\ image' = IF run'.size = 0 /\ sameImage /\ image = "staged" THEN "attempted" ELSE image
    /\ pcA' = IF run'.size > 0 THEN "begin" ELSE "returned"
    /\ UNCHANGED <<phase, fsLock, is_downloading, is_updating, slot, aOpen, sameImage>>
    /\ UNCHANGED fetchVars

\* size_t updateSize = binFile.size(); if (updateSize > 0) ... else ...; lines 81-87
UpdateFirmwareFromSD_Size ==
    /\ phase = "running" /\ pcA = "size"
    /\ run' = [run EXCEPT !.size = DataLen(slot.data)]
    /\ image' = IF run'.size = 0 /\ sameImage /\ image = "staged" THEN "attempted" ELSE image
    /\ pcA' = IF run'.size > 0 THEN "begin" ELSE "close"
    /\ UNCHANGED <<phase, fsLock, is_downloading, is_updating, slot, aOpen, sameImage>>
    /\ UNCHANGED fetchVars

\* the result of Update.begin is not looked at
Begin_ResultIgnored ==
    /\ phase = "running" /\ pcA = "begin"
    /\ \E ok \in BOOLEAN :
         /\ run' = [run EXCEPT !.beginCalls = @ + 1, !.beganOK = ok]
         /\ pcA' = "writeStream"
    /\ image' = IF sameImage /\ image = "staged" THEN "attempted" ELSE image
    /\ UNCHANGED <<phase, fsLock, is_downloading, is_updating, slot, aOpen, sameImage>>
    /\ UNCHANGED fetchVars

\* if (Update.begin(updateSize)) ... else "Not enough space"; lines 37, 55-57
performUpdate_Begin ==
    /\ phase = "running" /\ pcA = "begin"
    /\ \E ok \in BOOLEAN :
         /\ run' = [run EXCEPT !.beginCalls = @ + 1, !.beganOK = ok]
         /\ pcA' = IF ok THEN "writeStream" ELSE "close"
    /\ image' = IF sameImage /\ image = "staged" THEN "attempted" ELSE image
    /\ UNCHANGED <<phase, fsLock, is_downloading, is_updating, slot, aOpen, sameImage>>
    /\ UNCHANGED fetchVars

\* the values Update.writeStream is made to return for a declared size:
\* nothing, half, all; never more than the file holds at that moment
WrittenCounts(size, data) == {w \in {0, size \div 2, size} : w <= DataLen(data)}

\* a mismatch between written and updateSize ends performUpdate
WriteStream_AbortOnMismatch ==
    /\ phase = "running" /\ pcA = "writeStream"
    /\ \E w \in WrittenCounts(run.size, slot.data) :
         /\ run' = [run EXCEPT !.writeCalls = @ + 1, !.written = w]
         /\ pcA' = IF w = run.size THEN "end" ELSE "close"
    /\ UNCHANGED <<image, phase, fsLock, is_downloading, is_updating, slot, aOpen, sameImage>>
    /\ UNCHANGED fetchVars

\* size_t written = Update.writeStream(updateSource); the comparison with
\* updateSize only chooses the message; lines 38-43
performUpdate_WriteStream ==
    /\ phase = "running" /\ pcA = "writeStream"
    /\ \E w \in WrittenCounts(run.size, slot.data) :
         /\ run' = [run EXCEPT !.writeCalls = @ + 1, !.written = w]
         /\ pcA' = "end"
    /\ UNCHANGED <<image, phase, fsLock, is_downloading, is_updating, slot, aOpen, sameImage>>
    /\ UNCHANGED fetchVars

\* if (Update.end()) ... else "Error Occurred"; lines 44, 52-54
performUpdate_End ==
    /\ phase = "running" /\ pcA = "end"
    /\ \E ok \in BOOLEAN :
         /\ run' = [run EXCEPT !.endCalls = @ + 1, !.endOK = ok]
         /\ pcA' = IF ok THEN "isFinished" ELSE "close"
    /\ UNCHANGED <<image, phase, fsLock, is_downloading, is_updating, slot, aOpen, sameImage>>
    /\ UNCHANGED fetchVars

\* Update.end() returned true and the result of isFinished is not looked at
IsFinished_Ignored ==
    /\ phase = "running" /\ pcA = "isFinished"
    /\ \E fin \in BOOLEAN :
         /\ run' = [run EXCEPT !.finished = fin]
         /\ pcA' = "restart"
    /\ UNCHANGED <<image, phase, fsLock, is_downloading, is_updating, slot, aOpen, sameImage>>
    /\ UNCHANGED fetchVars

\* if (Update.isFinished()) ... else "Update not finished?"; lines 46, 49-51
performUpdate_IsFinished ==
    /\ phase = "running" /\ pcA = "isFinished"
    /\ \E fin \in BOOLEAN :
         /\ run' = [run EXCEPT !.finished = fin]
         /\ pcA' = IF fin THEN "restart" ELSE "close"
    /\ UNCHANGED <<image, phase, fsLock, is_downloading, is_updating, slot, aOpen, sameImage>>
    /\ UNCHANGED fetchVars

\* ESP.restart(); does not return: both tasks stop where they are; line 48
performUpdate_Restart ==
    /\ phase = "running" /\ pcA = "restart"
    /\ phase' = "rebooting"
    /\ run' = [run EXCEPT !.restartCalls = @ + 1]
    /\ UNCHANGED <<image, fsLock, is_downloading, is_updating, slot, pcA, aOpen, sameImage>>
    /\ UNCHANGED fetchVars

\* binFile.close(); line 89
UpdateFirmwareFromSD_Close ==
    /\ phase = "running" /\ pcA = "close"
    /\ aOpen' = FALSE
    /\ pcA' = "remove"
    /\ UNCHANGED <<image, phase, fsLock, is_downloading, is_updating, slot, sameImage, run>>
    /\ UNCHANGED fetchVars

\* SD.remove("/update.bin"), result not looked at; line 90.  With file
\* locking the FAT layer refuses to unlink a file that is open.
UpdateFirmwareFromSD_Remove ==
    /\ phase = "running" /\ pcA = "remove"
    /\ IF slot.present /\ ~(fsLock /\ fOpen)
       THEN /\ slot' = NoFile
            /\ sameImage' = FALSE
            /\ image' = IF image = "staged" THEN "lost" ELSE "absent"
            /\ fetch' = [fetch EXCEPT !.touched = TRUE]
       ELSE UNCHANGED <<slot, sameImage, fetch, image>>
    /\ pcA' = "clearUpdating"
    /\ UNCHANGED <<phase, fsLock, is_downloading, is_updating, aOpen, run>>
    /\ UNCHANGED <<pcF, fOpen, body, pos, bytesRead>>

\* is_updating = false; return; line 92
UpdateFirmwareFromSD_ClearUpdating ==
    /\ phase = "running" /\ pcA = "clearUpdating"
    /\ is_updating' = FALSE
    /\ pcA' = "returned"
    /\ UNCHANGED <<image, phase, fsLock, is_downloading, slot, aOpen, sameImage, run>>
    /\ UNCHANGED fetchVars

\* UpdateFirmwareFromSD has returned; SDUpdaterLoop goes into delay(SD_Timeout); lines 213-214
SDUpdaterLoop_Delay ==
    /\ phase = "running" /\ pcA = "returned"
    /\ pcA' = "delay"
    /\ UNCHANGED <<image, phase, fsLock, is_downloading, is_updating, slot, aOpen, sameImage, run>>
    /\ UNCHANGED fetchVars

ApplyStep ==
    \/ UpdateFirmwareFromSD_Enter
    \/ UpdateFirmwareFromSD_Mount
    \/ UpdateFirmwareFromSD_Open
    \/ UpdateFirmwareFromSD_SetUpdating
    \/ UpdateFirmwareFromSD_Size
    \/ performUpdate_Begin
    \/ performUpdate_WriteStream
    \/ performUpdate_End
    \/ performUpdate_IsFinished
    \/ performUpdate_Restart
    \/ UpdateFirmwareFromSD_Close
    \/ UpdateFirmwareFromSD_Remove
    \/ UpdateFirmwareFromSD_ClearUpdating
    \/ SDUpdaterLoop_Delay

\* the device comes up again: globals are initialised anew, setup() creates
\* both tasks; what is on the card stays; lines 25-26, 165-199
setup ==
    /\ phase = "rebooting"
    /\ phase' = "running"
    /\ is_downloading' = FALSE
    /\ is_updating' = FALSE
    /\ pcF' = "delay" /\ fOpen' = FALSE /\ body' = 0 /\ pos' = 0 /\ bytesRead' = 0
    /\ fetch' = NoFetch
    /\ pcA' = "delay" /\ aOpen' = FALSE /\ sameImage' = FALSE
    /\ run' = NoRun
    /\ UNCHANGED <<fsLock, slot, image>>

Next == FetchStep \/ ApplyStep \/ setup

Spec == Init /\ [][Next]_vars

\* Both tasks have priority 1 on core 1 and are time-sliced, so each keeps
\* getting steps.  UpdateFirmwareFromSD is called every SD_Timeout = 60 s and
\* CheckAPIForUpdates every WiFi_Timeout = 3600 s, so Apply is not met by
\* is_downloading on every call; SD.begin and SD.open do not fail every time.
LiveSpec ==
    /\ Spec
    /\ WF_vars(FetchStep)
    /\ WF_vars(ApplyStep)
    /\ WF_vars(setup)
    /\ SF_vars(UpdateFirmwareFromSD_Enter /\ pcA' = "mount")
    /\ SF_vars(UpdateFirmwareFromSD_Mount /\ pcA' = "open")
    /\ SF_vars(CheckAPIForUpdates_Mount /\ pcF' = "open")
    /\ SF_vars(CheckAPIForUpdates_Open /\ fOpen')

(* =============================== properties =============================== *)

\* the last call of UpdateFirmwareFromSD is over: it returned, or it ended in ESP.restart()
ApplyRunOver == pcA \in {"returned", "delay"} \/ phase = "rebooting"

\* C1: mutual exclusion: is_downloading and is_updating are never both true,
\* that is, Fetch is never between lines 125 and 159 while Apply is between
\* lines 78 and 92.
C1_MutualExclusion == ~(is_downloading /\ is_updating)

\* C2: an apply never works on a partially downloaded image: binFile is never
\* open for reading (lines 72-89) while Fetch holds the file open for writing
\* (lines 136-146).
C2_NoApplyOnPartialImage == ~(aOpen /\ fOpen)

\* C3: gate release: after CheckAPIForUpdates has returned is_downloading is
\* false, and after UpdateFirmwareFromSD has returned is_updating is false,
\* whatever fault occurred in the call.
C3_GateRelease ==
    /\ pcF = "delay" => ~is_downloading
    /\ pcA \in {"returned", "delay"} => ~is_updating

\* Fetch has returned after a failed mount, with its gate taken before, and
\* Apply has returned from a run whose Update.begin failed
C3_Witness ==
    /\ pcF = "delay" /\ fetch.outcome = "mountFailed"
    /\ pcA = "returned" /\ run.found /\ run.beginCalls = 1 /\ ~run.beganOK

\* C4: staged-image cleanup: when a run of UpdateFirmwareFromSD that opened
\* /update.bin is over, by return or by restart, binFile is closed and the
\* slot no longer holds the file that was opened.
C4_StagedImageCleanup == (ApplyRunOver /\ run.found) => (~sameImage /\ ~aOpen)

\* C5: end-to-end success: a run on a completely staged non-empty image for
\* which begin succeeds, all bytes are written, end succeeds and isFinished
\* is true calls restart exactly once and leaves the slot without that image.
C5_EndToEndSuccess ==
    (/\ ApplyRunOver
     /\ run.found /\ ~run.partial /\ run.size > 0
     /\ run.beganOK /\ run.writeCalls = 1 /\ run.written = run.size
     /\ run.endOK /\ run.finished)
    => (run.restartCalls = 1 /\ ~sameImage)

\* C6: Fetch stages exactly the payload: when CheckAPIForUpdates has returned
\* after saving a body of N bytes and Apply has not removed the file since
\* the call began, /update.bin exists and holds exactly bytes 1..N of the
\* body, whatever it held before the open.
C6_FetchStagesPayload ==
    (pcF = "delay" /\ fetch.outcome = "saved" /\ ~fetch.touched)
    => slot = [present |-> TRUE, data |-> Bytes(NEW_IMAGE, 1, body)]

\* a body of one buffer and one byte was saved over a non-empty file
C6_Witness ==
    /\ pcF = "delay" /\ fetch.outcome = "saved" /\ ~fetch.touched
    /\ fetch.prevLen > 0 /\ body = bufferSize + 1

\* C7: restart only on verified success: ESP.restart is reached or called
\* only in a run with a non-empty image in which Update.begin, Update.end
\* and Update.isFinished all returned true.
C7_RestartOnlyVerified ==
    (pcA = "restart" \/ run.restartCalls > 0 \/ phase = "rebooting")
    => (/\ run.found /\ run.size > 0
        /\ run.beginCalls = 1 /\ run.beganOK
        /\ run.endCalls = 1 /\ run.endOK
        /\ run.finished)

\* ESP.restart() has been called
C7_Witness == phase = "rebooting" /\ run.restartCalls = 1

\* the run found an image and read its size as 0
EmptyImageRun == run.found /\ run.size = 0 /\ pcA \notin {"setUpdating", "size"}

\* C8: empty image: in a run that found an image of size 0 the flash
\* primitive is never begun, written or finalized and restart is not called;
\* when the run has returned the opened file is gone, binFile is closed and
\* is_updating is false.
C8_EmptyImage ==
    /\ EmptyImageRun =>
         /\ run.beginCalls = 0 /\ run.writeCalls = 0 /\ run.endCalls = 0
         /\ run.restartCalls = 0 /\ phase = "running"
    /\ (EmptyImageRun /\ pcA \in {"returned", "delay"}) =>
         (~sameImage /\ ~aOpen /\ ~is_updating)

\* a run on an empty image has returned
C8_Witness == EmptyImageRun /\ pcA = "returned"

\* C9: size-mismatch policy: once Update.begin has succeeded and writeStream
\* has returned, Update.end is called, exactly once and never before
\* writeStream, whether or not written equals the declared size.
C9_FinalizeAfterWrite ==
    /\ run.endCalls <= run.writeCalls /\ run.writeCalls <= 1
    /\ (run.beganOK /\ pcA \notin {"writeStream", "end"}) =>
         (run.writeCalls = 1 /\ run.endCalls = 1)

\* fewer bytes than declared were written and Update.end was called
C9_Witness ==
    /\ run.beganOK /\ run.writeCalls = 1 /\ run.written < run.size
    /\ run.endCalls = 1

\* C10: byte-count mismatch: when a run in which writeStream returned a count
\* different from the declared size is over, the opened image is gone from
\* the slot and restart was not called, whatever Update.end and
\* Update.isFinished returned.
C10_MismatchDiscards ==
    (ApplyRunOver /\ run.writeCalls = 1 /\ run.written # run.size)
    => (run.restartCalls = 0 /\ ~sameImage)

\* positions of UpdateFirmwareFromSD before it has found a file
BeforeFound == {"delay", "mount", "open", "returned"}

\* C11: idempotence of "no image": a step of a run of UpdateFirmwareFromSD
\* that has found no file, taken while the slot is empty, leaves the slot
\* and both flags as they are, does not find a file, does not reach the
\* flash primitive or restart, and stays before line 78; so runs repeated
\* over an empty slot change nothing.
C11_NoImageIdempotent ==
    [][(ApplyStep /\ ~slot.present /\ (pcA = "delay" \/ (pcA \in BeforeFound /\ ~run.found))) =>
         (/\ UNCHANGED <<slot, is_downloading, is_updating, aOpen, phase>>
          /\ pcA' \in BeforeFound
          /\ ~run'.found
          /\ run'.beginCalls = 0 /\ run'.writeCalls = 0 /\ run'.endCalls = 0
          /\ run'.restartCalls = 0)]_vars

\* two runs in a row found no file, with Fetch idle and both flags false
C11_Witness ==
    /\ pcA = "returned" /\ run.outcome = "noUpdate" /\ run.prevNoUpdate
    /\ ~slot.present /\ pcF = "delay" /\ ~is_updating /\ ~is_downloading

\* C12: coordination conflict is a no-op: CheckAPIForUpdates called while
\* is_updating is true returns at once, with no HTTP request and no storage
\* call, slot and flags unchanged; UpdateFirmwareFromSD called while
\* is_downloading is true returns at once, with no mount, open, flash call
\* or remove, slot and flags unchanged.
C12_ConflictNoOp ==
    [][/\ (FetchStep /\ pcF = "delay" /\ is_updating) =>
            (/\ pcF' = "delay"
             /\ fetch'.httpCode = 0 /\ fetch'.storageCalls = 0
             /\ UNCHANGED <<slot, fOpen, is_downloading, is_updating>>)
       /\ (ApplyStep /\ pcA = "delay" /\ is_downloading) =>
            (/\ pcA' = "returned"
             /\ ~run'.found /\ run'.beginCalls = 0
             /\ UNCHANGED <<slot, aOpen, is_downloading, is_updating>>)
       /\ (ApplyStep /\ pcA = "returned" /\ run.outcome = "busy") =>
            (pcA' = "delay" /\ UNCHANGED <<slot, aOpen, is_downloading, is_updating, run>>)]_vars

\* an earlier call of CheckAPIForUpdates was turned away by is_updating, and
\* now UpdateFirmwareFromSD has been turned away by is_downloading
C12_Witness == fetch.prevBusy /\ run.outcome = "busy" /\ is_downloading

\* C13: at most one agent modifies the slot at a time: SD.remove is not
\* executed while Fetch holds the file open for writing, and Fetch does not
\* open (truncate) or write the file while binFile is open.
C13_SingleWriter ==
    [][/\ UpdateFirmwareFromSD_Remove => ~fOpen
       /\ (CheckAPIForUpdates_Open /\ fOpen') => ~aOpen
       /\ CheckAPIForUpdates_Write => ~aOpen]_vars

\* C14: no lost download: a file that Fetch has written and closed is never
\* removed before a flash attempt was made on it.
C14_NoLostDownload == image # "lost"

\* C15: a staged image is flashed at most once: Update.begin is never called
\* on a file on which a flash attempt was already made in an earlier run.
C15_FlashedAtMostOnce == [][performUpdate_Begin => image # "attempted"]_vars

\* C16: staged images are eventually consumed: a file that Fetch has written
\* and closed stays in the slot until a flash attempt is made on it or a
\* newer download replaces it (the part of "eventually attempted, unless
\* replaced first" that a finite run can refute).
C16_StagedUntilConsumed ==
    [][image = "staged" => image' \in {"staged", "attempted", "writing"}]_vars

\* the same under fair scheduling: a file that Fetch has written and closed
\* eventually is the subject of a flash attempt or is replaced
EventuallyConsumed == (image = "staged") ~> (image \in {"attempted", "writing"})

\* Update.begin was called in this run and reported insufficient space
CapacityRun == run.beginCalls = 1 /\ ~run.beganOK

\* C17: capacity error: after Update.begin has failed nothing is streamed,
\* Update.end and restart are not called; when the run has returned binFile
\* is closed, the opened file is gone, is_updating is false and the slot
\* holds no file on which an attempt was made.
C17_CapacityError ==
    /\ CapacityRun =>
         /\ run.writeCalls = 0 /\ run.endCalls = 0
         /\ run.restartCalls = 0 /\ phase = "running"
    /\ (CapacityRun /\ pcA \in {"returned", "delay"}) =>
         (~sameImage /\ ~aOpen /\ ~is_updating /\ image # "attempted")

\* a run in which Update.begin failed has returned
C17_Witness == CapacityRun /\ pcA = "returned" /\ run.size > 0

\* the availability request of this call did not report an update
NonAvailable(f) ==
    \/ f.outcome = "httpError"
    \/ f.httpCode \notin {0, HTTP_CODE_OK, HTTP_CODE_MOVED_PERMANENTLY}

\* C18: non-available responses are no-ops: in a call of CheckAPIForUpdates
\* whose request could not be started or returned 208 or any status other
\* than 200/301, storage is never mounted or opened, and the steps of the
\* call leave /update.bin and both flags as they are.
C18_NonAvailableNoOp ==
    [][/\ NonAvailable(fetch') =>
            (/\ fetch'.storageCalls = 0 /\ ~fOpen'
             /\ pcF' \in {"clearDownloading", "delay"})
       /\ (FetchStep /\ NonAvailable(fetch')) =>
            UNCHANGED <<slot, image, is_downloading, is_updating>>]_vars

\* a call that got status 404 has returned, the staged file still in place
C18_Witness ==
    /\ pcF = "delay" /\ fetch.httpCode = HTTP_CODE_NOT_FOUND
    /\ slot.present /\ DataLen(slot.data) > 0

\* positions of Apply from Update.begin to the removal of the file
FlashOrRemove == {"begin", "writeStream", "end", "isFinished", "restart", "close", "remove"}

\* C19: gates reflect ownership: is_downloading is true whenever Fetch holds
\* the file open for writing, is_updating is true whenever Apply is between
\* Update.begin and SD.remove, is_downloading is written by steps of Fetch
\* only and is_updating by steps of Apply only (and both by the reboot).
C19_GatesReflectOwnership ==
    [][/\ fOpen' => is_downloading'
       /\ pcA' \in FlashOrRemove => is_updating'
       /\ is_downloading' # is_downloading => (FetchStep \/ setup)
       /\ is_updating' # is_updating => (ApplyStep \/ setup)]_vars

\* Fetch holds the file open while Apply is about to remove it, both gates set
C19_Witness == fOpen /\ is_downloading /\ pcA = "remove" /\ is_updating

====
